---- MODULE Spec2Model ----
(***************************************************************************)
(* MySQL Explorer: the read-only query gate of read_query, the scoped      *)
(* connection MySQLConnection, the environment-backed get_db_config, the   *)
(* schema tools and save_query_results, modelled from                      *)
(* src/mysql_explorer.py, and read_query of the SSE program, modelled      *)
(* from src/mysql_explorer_sse/mysql_explorer_sse.py.                      *)
(*                                                                         *)
(* A text is a sequence of one-character strings, so that strip, lower,    *)
(* split/join, startswith, the quote scanner and the regular expressions   *)
(* work on characters exactly as in the Python source.                     *)
(***************************************************************************)
EXTENDS Integers, Sequences, FiniteSets, TLC

VARIABLES
    startup_env, \* the environment the process was started with
    env,        \* os.environ restricted to the MYSQL_* variables
    tables,     \* names of the tables that exist in the database
    phase,      \* position of the running tool call ("idle" between calls)
    tool,       \* name of the running tool
    query,      \* read_query: the local variable `query`
    row_limit,  \* read_query: the parameter row_limit
    table_name, \* describe_table & co: the parameter table_name
    config,     \* the local variable `config` of the running call
    open,       \* configurations of the connections currently open
    opened,     \* number of connections the running call has opened
    sent,       \* statements the running call has sent to the database
    outcome,    \* how the last call ended ("none" while running)
    files,      \* the file system: path |-> [size, written] for every existing file
    data,       \* save_query_results: the parameter data (a list of rows)
    file_format,     \* save_query_results: the parameter file_format
    custom_filename, \* save_query_results: the parameter custom_filename ("" for None)
    result,     \* save_query_results: the value returned or the exception raised
    sse,        \* the running read_query call of mysql_explorer_sse.py
    memo        \* history: the first validated read_query call and its latest repeat

\* the state of save_query_results, of the SSE variant and the history
export_vars == <<files, data, file_format, custom_filename, result>>

vars == <<startup_env, env, tables, phase, tool, query, row_limit, table_name, config,
          open, opened, sent, outcome, export_vars, sse, memo>>

----------------------------------------------------------------------------
(* Characters *)

SQ == "'"
DQ == "\""
\* the backtick character (a TLA+ string cannot hold it literally)
BT == "<backtick>"
BS == "\\"
SC == ";"
SPC == " "

LowerLetters ==
    <<"a","b","c","d","e","f","g","h","i","j","k","l","m",
      "n","o","p","q","r","s","t","u","v","w","x","y","z">>
UpperLetters ==
    <<"A","B","C","D","E","F","G","H","I","J","K","L","M",
      "N","O","P","Q","R","S","T","U","V","W","X","Y","Z">>
DigitChars == <<"0","1","2","3","4","5","6","7","8","9">>

Range(f) == {f[i] : i \in DOMAIN f}

\* str.isspace for the ASCII whitespace str.strip() and str.split() remove
WhitespaceChars == {" ", "\t", "\n", "\r", "\f"}
IsSpace(c) == c \in WhitespaceChars

\* the class \w of Python's re on ASCII text
WordChars == Range(LowerLetters) \cup Range(UpperLetters) \cup Range(DigitChars) \cup {"_"}
IsWordChar(c) == c \in WordChars

LowerMap == [c \in Range(UpperLetters) |->
                LowerLetters[CHOOSE i \in 1..26 : UpperLetters[i] = c]]
LowerChar(c) == IF c \in DOMAIN LowerMap THEN LowerMap[c] ELSE c

----------------------------------------------------------------------------
(* Python string primitives *)

\* str.lower()
lower(s) == [i \in 1..Len(s) |-> LowerChar(s[i])]

RECURSIVE lstrip(_)
lstrip(s) == IF s # <<>> /\ IsSpace(Head(s)) THEN lstrip(Tail(s)) ELSE s

RECURSIVE rstrip(_)
rstrip(s) ==
    IF s # <<>> /\ IsSpace(s[Len(s)]) THEN rstrip(SubSeq(s, 1, Len(s) - 1)) ELSE s

\* str.strip()
strip(s) == rstrip(lstrip(s))

\* str.startswith(prefix)
startswith(s, prefix) ==
    Len(prefix) <= Len(s) /\ SubSeq(s, 1, Len(prefix)) = prefix

\* str.endswith(suffix)
endswith(s, suffix) ==
    Len(suffix) <= Len(s) /\ SubSeq(s, Len(s) - Len(suffix) + 1, Len(s)) = suffix

\* `sub in s`
contains(s, sub) ==
    \E p \in 1..(Len(s) - Len(sub) + 1) : SubSeq(s, p, p + Len(sub) - 1) = sub

\* str.split(): the maximal runs of non-whitespace characters
RECURSIVE split(_)
split(s) ==
    LET t == lstrip(s) IN
    IF t = <<>> THEN <<>>
    ELSE LET stops == {i \in 1..Len(t) : IsSpace(t[i])}
             n == IF stops = {} THEN Len(t)
                  ELSE (CHOOSE i \in stops : \A j \in stops : i <= j) - 1
         IN <<SubSeq(t, 1, n)>> \o split(SubSeq(t, n + 1, Len(t)))

\* ' '.join(words)
RECURSIVE join(_)
join(words) ==
    IF words = <<>> THEN <<>>
    ELSE IF Len(words) = 1 THEN words[1]
    ELSE words[1] \o <<SPC>> \o join(Tail(words))

\* ' '.join(s.lower().split())
normalize(s) == join(split(lower(s)))

\* str(n) for a non-negative int
RECURSIVE str(_)
str(n) == IF n < 10 THEN <<DigitChars[n + 1]>>
          ELSE str(n \div 10) \o <<DigitChars[(n % 10) + 1]>>

----------------------------------------------------------------------------
(* read_query: the multi-statement scanner *)

RECURSIVE scan_statements(_, _, _, _, _)
scan_statements(sql, i, in_single_quote, in_double_quote, escaped) ==
    IF i > Len(sql) THEN FALSE
    ELSE LET char == sql[i] IN
         IF escaped
           THEN scan_statements(sql, i + 1, in_single_quote, in_double_quote, FALSE)
         ELSE IF char = BS
           THEN scan_statements(sql, i + 1, in_single_quote, in_double_quote, TRUE)
         ELSE IF char = SQ /\ ~in_double_quote
           THEN scan_statements(sql, i + 1, ~in_single_quote, in_double_quote, FALSE)
         ELSE IF char = DQ /\ ~in_single_quote
           THEN scan_statements(sql, i + 1, in_single_quote, ~in_double_quote, FALSE)
         ELSE IF char = SC /\ ~in_single_quote /\ ~in_double_quote
           THEN TRUE
         ELSE scan_statements(sql, i + 1, in_single_quote, in_double_quote, FALSE)

\* the scanner without the `escaped` flag: a backslash is an ordinary character
RECURSIVE scan_statements_noescape(_, _, _, _)
scan_statements_noescape(sql, i, in_single_quote, in_double_quote) ==
    IF i > Len(sql) THEN FALSE
    ELSE LET char == sql[i] IN
         IF char = SQ /\ ~in_double_quote
           THEN scan_statements_noescape(sql, i + 1, ~in_single_quote, in_double_quote)
         ELSE IF char = DQ /\ ~in_single_quote
           THEN scan_statements_noescape(sql, i + 1, in_single_quote, ~in_double_quote)
         ELSE IF char = SC /\ ~in_single_quote /\ ~in_double_quote
           THEN TRUE
         ELSE scan_statements_noescape(sql, i + 1, in_single_quote, in_double_quote)

contains_multiple_statements_noescape(sql) ==
    scan_statements_noescape(sql, 1, FALSE, FALSE)

contains_multiple_statements(sql) ==
    scan_statements(sql, 1, FALSE, FALSE, FALSE)

----------------------------------------------------------------------------
(* read_query: allowlist and denylist *)

allowed_prefixes ==
    << <<"s","e","l","e","c","t">>,
       <<"s","h","o","w">>,
       <<"d","e","s","c","r","i","b","e">>,
       <<"d","e","s","c">>,
       <<"e","x","p","l","a","i","n">>,
       <<"w","i","t","h">> >>

dangerous_keywords ==
    << <<"i","n","s","e","r","t">>,
       <<"u","p","d","a","t","e">>,
       <<"d","e","l","e","t","e">>,
       <<"d","r","o","p">>,
       <<"c","r","e","a","t","e">>,
       <<"a","l","t","e","r">>,
       <<"t","r","u","n","c","a","t","e">>,
       <<"r","e","p","l","a","c","e">>,
       <<"m","e","r","g","e">>,
       <<"c","a","l","l">>,
       <<"e","x","e","c">>,
       <<"e","x","e","c","u","t","e">>,
       <<"g","r","a","n","t">>,
       <<"r","e","v","o","k","e">>,
       <<"s","e","t">>,
       <<"r","e","s","e","t">>,
       <<"f","l","u","s","h">>,
       <<"k","i","l","l">>,
       <<"l","o","a","d">>,
       <<"i","m","p","o","r","t">>,
       <<"o","u","t","f","i","l","e">>,
       <<"d","u","m","p","f","i","l","e">>,
       <<"i","n","t","o"," ","o","u","t","f","i","l","e">>,
       <<"i","n","t","o"," ","d","u","m","p","f","i","l","e">>,
       <<"l","o","a","d","_","f","i","l","e">> >>

\* re.sub(q + '[^' + q + ']*' + q, q + q, s): every leftmost, non-overlapping
\* run from a quote character to the next one is replaced by the empty pair
RECURSIVE re_sub_quoted(_, _)
re_sub_quoted(s, q) ==
    IF s = <<>> THEN <<>>
    ELSE IF Head(s) # q THEN <<Head(s)>> \o re_sub_quoted(Tail(s), q)
    ELSE LET rest == Tail(s)
             closes == {j \in 1..Len(rest) : rest[j] = q}
         IN IF closes = {} THEN s
            ELSE LET j == CHOOSE k \in closes : \A m \in closes : k <= m
                 IN <<q, q>> \o re_sub_quoted(SubSeq(rest, j + 1, Len(rest)), q)

\* the assertion \b of re between s[k] and s[k+1] (k = 0: before the first character)
word_boundary(s, k) ==
    LET before == k >= 1 /\ k <= Len(s) /\ IsWordChar(s[k])
        after == k + 1 >= 1 /\ k + 1 <= Len(s) /\ IsWordChar(s[k + 1])
    IN before # after

\* re.search(r'\b' + re.escape(keyword) + r'\b', s) is not None
re_search_word(keyword, s) ==
    \E p \in 1..(Len(s) - Len(keyword) + 1) :
        /\ SubSeq(s, p, p + Len(keyword) - 1) = keyword
        /\ word_boundary(s, p - 1)
        /\ word_boundary(s, p + Len(keyword) - 1)

NoKeyword == <<>>

\* (has_dangerous, dangerous_word); dangerous_word = "" is NoKeyword
contains_dangerous_keywords(sql) ==
    LET cleaned_sql ==
            join(split(lower(
                re_sub_quoted(re_sub_quoted(re_sub_quoted(sql, SQ), DQ), BT))))
        hits == {k \in 1..Len(dangerous_keywords) :
                    re_search_word(dangerous_keywords[k], cleaned_sql)}
    IN IF hits = {} THEN [has |-> FALSE, word |-> NoKeyword]
       ELSE [has |-> TRUE,
             word |-> dangerous_keywords[CHOOSE k \in hits : \A m \in hits : k <= m]]

----------------------------------------------------------------------------
(* Configuration: get_db_config reads os.environ on every call *)

EnvNames == {"MYSQL_HOST", "MYSQL_PORT", "MYSQL_USER", "MYSQL_PASSWORD", "MYSQL_DATABASE"}

\* os.getenv(name, default) on the environment e (a function whose domain
\* is the set of the variables that are set)
\* a lookup in a snapshot of the environment taken when the process started
getenv_startup(e, name, default) ==
    IF name \in DOMAIN startup_env THEN startup_env[name] ELSE default

getenv(e, name, default) == IF name \in DOMAIN e THEN e[name] ELSE default

IntError == -1

\* int(text) for a text of decimal digits; anything else raises ValueError
RECURSIVE int(_)
int(text) ==
    IF text = <<>> THEN IntError
    ELSE LET last == text[Len(text)]
             digits == {d \in 1..10 : DigitChars[d] = last}
         IN IF digits = {} THEN IntError
            ELSE LET v == (CHOOSE d \in digits : TRUE) - 1
                 IN IF Len(text) = 1 THEN v
                    ELSE LET hi == int(SubSeq(text, 1, Len(text) - 1))
                         IN IF hi = IntError THEN IntError ELSE hi * 10 + v

NoConfig == [error |-> "unset"]

get_db_config(e) ==
    LET host == getenv(e, "MYSQL_HOST", "127.0.0.1")
        port == int(getenv(e, "MYSQL_PORT", <<"3","3","0","6">>))
        user == getenv(e, "MYSQL_USER", "root")
        password == getenv(e, "MYSQL_PASSWORD", "123456")
        database == getenv(e, "MYSQL_DATABASE", "aircraft")
    IN IF port = IntError THEN [error |-> "PortError"]
       ELSE IF ~(user # "" /\ password # "" /\ database # "")
         THEN [error |-> "ConfigError"]
       ELSE [error |-> "", host |-> host, port |-> port, user |-> user,
             password |-> password, database |-> database]

----------------------------------------------------------------------------
(* Outcomes of a call *)

Outcome(kind) == [kind |-> kind, word |-> NoKeyword]
Running == Outcome("none")

\* a call ends: the exception or the return value reaches the caller
Finish(kind, word) ==
    /\ phase' = "returned"
    /\ outcome' = [kind |-> kind, word |-> word]

----------------------------------------------------------------------------
(* read_query *)

\* lines 63-67: strip, drop one trailing semicolon, strip again
clean(q) ==
    LET stripped == strip(q)
    IN IF endswith(stripped, <<SC>>)
         THEN strip(SubSeq(stripped, 1, Len(stripped) - 1))
         ELSE stripped

\* the test with its operands exchanged: prefix.startswith(query_normalized)
has_allowed_prefix_swapped(query_normalized) ==
    \E k \in 1..Len(allowed_prefixes) :
        startswith(allowed_prefixes[k], query_normalized)

\* lines 93-107: any(query_normalized.startswith(prefix) for prefix in allowed_prefixes)
has_allowed_prefix(query_normalized) ==
    \E k \in 1..Len(allowed_prefixes) :
        startswith(query_normalized, allowed_prefixes[k])

\* a validator that keeps state: once some call has been validated, every
\* later call is refused
validate_after_first(c, q) ==
    IF c.error # "" THEN [kind |-> c.error, word |-> <<>>]
    ELSE IF memo.set THEN [kind |-> "NotReadOnly", word |-> <<>>]
    ELSE IF contains_multiple_statements(q)
      THEN [kind |-> "MultipleStatements", word |-> <<>>]
    ELSE IF ~has_allowed_prefix(normalize(q))
      THEN [kind |-> "NotReadOnly", word |-> <<>>]
    ELSE IF contains_dangerous_keywords(normalize(q)).has
      THEN [kind |-> "DangerousKeyword", word |-> contains_dangerous_keywords(normalize(q)).word]
    ELSE [kind |-> "", word |-> <<>>]

\* lines 60-143 in order: the first failing check raises, "" when none does
validate(c, q) ==
    LET query_normalized == normalize(q)
        found == contains_dangerous_keywords(query_normalized)
    IN IF c.error # "" THEN [kind |-> c.error, word |-> NoKeyword]
       ELSE IF contains_multiple_statements(q)
         THEN [kind |-> "MultipleStatements", word |-> NoKeyword]
       ELSE IF ~has_allowed_prefix(query_normalized)
         THEN [kind |-> "NotReadOnly", word |-> NoKeyword]
       ELSE IF found.has
         THEN [kind |-> "DangerousKeyword", word |-> found.word]
       ELSE [kind |-> "", word |-> NoKeyword]

\* the gate without its denylist pass
RQ_Validate_nodeny ==
    /\ phase = "start" /\ tool = "read_query"
    /\ LET c == get_db_config(env)
           q == clean(query)
           v == validate(c, q)
       IN /\ config' = c
          /\ query' = q
          /\ IF v.kind \notin {"", "DangerousKeyword"}
               THEN Finish(v.kind, v.word)
               ELSE phase' = "connect" /\ outcome' = outcome
    /\ UNCHANGED <<export_vars, sse, memo, startup_env, env, tables, tool, row_limit, table_name, open, opened, sent>>

\* lines 60-145: configuration, cleaning and the three checks; nothing here
\* touches the database, and the first failure leaves read_query
RQ_Validate_step ==
    /\ phase = "start" /\ tool = "read_query"
    /\ LET c == get_db_config(env)
           q == clean(query)
           v == validate(c, q)
       IN /\ config' = c
          /\ query' = q
          /\ IF v.kind # ""
               THEN Finish(v.kind, v.word)
               ELSE phase' = "connect" /\ outcome' = outcome
    /\ UNCHANGED <<export_vars, sse, startup_env, env, tables, tool, row_limit, table_name,
                   open, opened, sent>>

RQ_Validate == RQ_Validate_step /\ UNCHANGED memo

\* the history of validation verdicts: the first call that reached the checks
\* (its text and row_limit as passed, and its verdict) and the verdict of the
\* latest later call with the same text and row_limit
NoVerdict == [kind |-> "none", word |-> NoKeyword]

NoMemo == [set |-> FALSE, query |-> <<>>, row_limit |-> 0, verdict |-> NoVerdict,
           repeat |-> NoVerdict]

remember(m, q, limit, c, v) ==
    IF c.error # "" THEN m
    ELSE IF ~m.set
      THEN [set |-> TRUE, query |-> q, row_limit |-> limit, verdict |-> v,
            repeat |-> NoVerdict]
    ELSE IF m.query = q /\ m.row_limit = limit THEN [m EXCEPT !.repeat = v]
    ELSE m

\* RQ_Validate, with the verdict written to the history
RQ_Validate_remember ==
    /\ RQ_Validate_step
    /\ memo' = remember(memo, query, row_limit, get_db_config(env),
                        validate(get_db_config(env), clean(query)))

----------------------------------------------------------------------------
(* MySQLConnection *)

\* __enter__: pymysql.connect(**config) returns a connection ...
MySQLConnection_enter ==
    /\ phase = "connect"
    /\ open' = Append(open, config)
    /\ opened' = opened + 1
    /\ phase' = "body"
    /\ UNCHANGED <<export_vars, sse, memo, startup_env, env, tables, tool, query, row_limit, table_name, config, sent,
                   outcome>>

\* ... or raises: self.conn stays None, __exit__ is not run
MySQLConnection_enter_raises ==
    /\ phase = "connect"
    /\ Finish("ConnectError", NoKeyword)
    /\ UNCHANGED <<export_vars, sse, memo, startup_env, env, tables, tool, query, row_limit, table_name, config, open,
                   opened, sent>>

\* __exit__ forgets to close
MySQLConnection_exit_leak ==
    /\ phase = "exit"
    /\ phase' = "returned"
    /\ UNCHANGED <<export_vars, sse, memo, startup_env, env, tables, tool, query, row_limit, table_name, config, open,
                   opened, sent, outcome>>

\* __exit__: self.conn.close(), on the normal and on the exceptional exit
MySQLConnection_exit ==
    /\ phase = "exit"
    /\ open' = SubSeq(open, 1, Len(open) - 1)
    /\ phase' = "returned"
    /\ UNCHANGED <<export_vars, sse, memo, startup_env, env, tables, tool, query, row_limit, table_name, config, opened,
                   sent, outcome>>

\* the body of a `with` block ends with `kind`; __exit__ runs next
Leave(kind) ==
    /\ phase' = "exit"
    /\ outcome' = Outcome(kind)

----------------------------------------------------------------------------
(* read_query: limit injection and execution *)

LimitWord == <<"l","i","m","i","t">>
SelectWord == <<"s","e","l","e","c","t">>

\* lines 152-153
execution_text(q, limit) ==
    IF ~contains(normalize(q), LimitWord) /\ startswith(normalize(q), SelectWord)
      THEN q \o <<" ","L","I","M","I","T"," ">> \o str(limit)
      ELSE q

Statement(kind, text) == [kind |-> kind, text |-> text]

NoTable == <<>>

\* lines 155-176: cursor.execute and the fetch succeed
RQ_Execute ==
    /\ phase = "body" /\ tool = "read_query"
    /\ query' = execution_text(query, row_limit)
    /\ sent' = Append(sent, Statement("QUERY", query'))
    /\ Leave("ok")
    /\ UNCHANGED <<export_vars, sse, memo, startup_env, env, tables, tool, row_limit, table_name, config, open, opened>>

\* lines 178-179: the driver raises pymysql.Error
RQ_Execute_raises ==
    /\ phase = "body" /\ tool = "read_query"
    /\ query' = execution_text(query, row_limit)
    /\ sent' = Append(sent, Statement("QUERY", query'))
    /\ Leave("MySQLError")
    /\ UNCHANGED <<export_vars, sse, memo, startup_env, env, tables, tool, row_limit, table_name, config, open, opened>>

----------------------------------------------------------------------------
(* The schema tools *)

\* config = get_db_config(), the first statement of every other tool
Tool_Config ==
    /\ phase = "start" /\ tool # "read_query"
    /\ LET c == get_db_config(env) IN
        /\ config' = c
        /\ IF c.error # ""
             THEN Finish(c.error, NoKeyword)
             ELSE phase' = "connect" /\ outcome' = outcome
    /\ UNCHANGED <<export_vars, sse, memo, startup_env, env, tables, tool, query, row_limit, table_name, open,
                   opened, sent>>

\* the body sends `stmt`, then goes on (kind = "") or leaves the block with `kind`
Send(stmt, kind) ==
    /\ sent' = Append(sent, stmt)
    /\ IF kind = "" THEN phase' = "body" /\ outcome' = outcome ELSE Leave(kind)
    /\ UNCHANGED <<export_vars, sse, memo, startup_env, env, tables, tool, query, row_limit, table_name, config,
                   open, opened>>

\* MySQL's LIKE: % matches any run of characters, _ any one character and a
\* backslash makes the next pattern character literal
RECURSIVE like_match(_, _)
like_match(pattern, name) ==
    IF pattern = <<>> THEN name = <<>>
    ELSE IF Head(pattern) = "%"
      THEN \/ like_match(Tail(pattern), name)
           \/ name # <<>> /\ like_match(pattern, Tail(name))
    ELSE IF Head(pattern) = "_"
      THEN name # <<>> /\ like_match(Tail(pattern), Tail(name))
    ELSE IF Head(pattern) = BS /\ Len(pattern) >= 2
      THEN /\ name # <<>> /\ Head(name) = pattern[2]
           /\ like_match(Tail(Tail(pattern)), Tail(name))
    ELSE name # <<>> /\ Head(name) = Head(pattern) /\ like_match(Tail(pattern), Tail(name))

\* cursor.execute("SHOW TABLES LIKE %s", [table_name]); cursor.fetchone()
show_tables_like(pattern) == \E t \in tables : like_match(pattern, t)

\* the check of describe_table, show_table_indexes and show_create_table
table_exists(name) == show_tables_like(name)

\* "Verify table exists": the statement is sent; no row raises ValueError
ExistenceCheck(t) ==
    /\ phase = "body" /\ tool = t /\ sent = <<>>
    /\ Send(Statement("SHOW TABLES LIKE", table_name),
            IF table_exists(table_name) THEN "" ELSE "NotExist")

\* the driver raises pymysql.Error on a statement of the body
ExecuteRaises(t, kind, n) ==
    /\ phase = "body" /\ tool = t /\ Len(sent) = n
    /\ Send(Statement(kind, table_name), "MySQLError")

\* the schema statement on `table_name`; the server refuses an unknown table
SchemaQuery(t, kind) ==
    /\ phase = "body" /\ tool = t /\ Len(sent) = 1
    /\ Send(Statement(kind, table_name),
            IF table_name \in tables THEN "ok" ELSE "MySQLError")

\* list_tables
list_tables_execute ==
    /\ phase = "body" /\ tool = "list_tables"
    /\ Send(Statement("SHOW TABLES", NoTable), "ok")

list_tables_raises == ExecuteRaises("list_tables", "SHOW TABLES", 0)

\* describe_table
describe_table_check == ExistenceCheck("describe_table")
describe_table_check_raises == ExecuteRaises("describe_table", "SHOW TABLES LIKE", 0)
describe_table_describe == SchemaQuery("describe_table", "DESCRIBE")
describe_table_describe_raises == ExecuteRaises("describe_table", "DESCRIBE", 1)

\* show_table_indexes
show_table_indexes_check == ExistenceCheck("show_table_indexes")
show_table_indexes_check_raises ==
    ExecuteRaises("show_table_indexes", "SHOW TABLES LIKE", 0)
show_table_indexes_show == SchemaQuery("show_table_indexes", "SHOW INDEX FROM")
show_table_indexes_show_raises == ExecuteRaises("show_table_indexes", "SHOW INDEX FROM", 1)

\* show_create_table
show_create_table_check == ExistenceCheck("show_create_table")
show_create_table_check_raises ==
    ExecuteRaises("show_create_table", "SHOW TABLES LIKE", 0)
show_create_table_show == SchemaQuery("show_create_table", "SHOW CREATE TABLE")
show_create_table_show_raises ==
    ExecuteRaises("show_create_table", "SHOW CREATE TABLE", 1)

\* get_database_info: four statements in a row
info_statements == <<"SELECT DATABASE()", "SELECT VERSION()", "SELECT USER()", "SHOW TABLES">>

get_database_info_execute ==
    /\ phase = "body" /\ tool = "get_database_info"
    /\ Len(sent) < Len(info_statements)
    /\ Send(Statement(info_statements[Len(sent) + 1], NoTable),
            IF Len(sent) + 1 = Len(info_statements) THEN "ok" ELSE "")

get_database_info_raises ==
    /\ phase = "body" /\ tool = "get_database_info"
    /\ Len(sent) < Len(info_statements)
    /\ Send(Statement(info_statements[Len(sent) + 1], NoTable), "MySQLError")

----------------------------------------------------------------------------
(* save_query_results *)

\* str.isalnum on the characters of the model
isalnum(c) == c \in Range(LowerLetters) \cup Range(UpperLetters) \cup Range(DigitChars)

\* "".join(c for c in s if c.isalnum() or c in extra)
keep_chars(s, extra) == SelectSeq(s, LAMBDA c : isalnum(c) \/ c \in extra)

\* str.replace(old, new): every occurrence, left to right, without overlap
RECURSIVE replace(_, _, _)
replace(s, old, new) ==
    IF old = <<>> \/ Len(s) < Len(old) THEN s
    ELSE IF startswith(s, old)
      THEN new \o replace(SubSeq(s, Len(old) + 1, Len(s)), old, new)
      ELSE <<Head(s)>> \o replace(Tail(s), old, new)

\* s.rsplit(sep, 1)[0] for a one-character sep that occurs in s
rsplit_head(s, sep) ==
    LET last == CHOOSE i \in 1..Len(s) :
                    s[i] = sep /\ \A j \in (i + 1)..Len(s) : s[j] # sep
    IN SubSeq(s, 1, last - 1)

\* the sanitizer that keeps '/' as well
safe_filename_keeps_slash(custom) ==
    LET kept == strip(keep_chars(custom, {" ", "_", "-", ".", "/"}))
        underscored == replace(kept, <<" ">>, <<"_">>)
    IN IF "." \in Range(underscored) THEN rsplit_head(underscored, ".") ELSE underscored

\* lines 199-203: keep alphanumerics, ' ', '_', '-', '.'; strip; spaces to
\* underscores; drop what follows the last dot
safe_filename(custom) ==
    LET kept == strip(keep_chars(custom, {" ", "_", "-", "."}))
        underscored == replace(kept, <<" ">>, <<"_">>)
    IN IF "." \in Range(underscored) THEN rsplit_head(underscored, ".") ELSE underscored

QuerySnippetLen == 50

\* lines 210-212: the first 50 characters of the query, made safe
safe_query(q) ==
    LET flat == replace(replace(q, <<"\n">>, <<" ">>), <<"\r">>, <<>>)
        query_snippet == SubSeq(flat, 1, IF Len(flat) < QuerySnippetLen
                                           THEN Len(flat) ELSE QuerySnippetLen)
    IN replace(strip(keep_chars(query_snippet, {" ", "_", "-"})), <<" ">>, <<"_">>)

\* datetime.now().strftime("%Y%m%d_%H%M%S") of the call
Timestamp == <<"2","0","2","4","0","1","0","1","_","0","0","0","0","0","0">>

\* lines 197-214
filename(custom, fmt, q) ==
    IF custom # <<>>
      THEN safe_filename(custom) \o <<".">> \o fmt
      ELSE <<"q","u","e","r","y","_">> \o Timestamp \o <<"_">> \o safe_query(q)
               \o <<".">> \o fmt

TempData == <<"t","e","m","p","_","d","a","t","a">>

\* os.path.join(directory, name): an absolute name replaces the directory
path_join(directory, name) ==
    IF name # <<>> /\ Head(name) = "/" THEN name ELSE directory \o <<"/">> \o name

JsonFormat == <<"j","s","o","n">>
CsvFormat == <<"c","s","v">>

\* line 244: filepath.replace('.csv', '_metadata.json')
metadata_filepath(filepath) ==
    replace(filepath, <<".">> \o CsvFormat,
            <<"_","m","e","t","a","d","a","t","a",".">> \o JsonFormat)

\* lines 282-286: one decimal, rounded as Python's format does (half to even)
one_decimal(size_bytes, unit) ==
    LET q == (size_bytes * 10) \div unit
        r == (size_bytes * 10) % unit
    IN IF 2 * r > unit \/ (2 * r = unit /\ q % 2 = 1) THEN q + 1 ELSE q

\* f"{x:.1f} <unit>" from the number of tenths
decimal_text(tenths, unit) ==
    str(tenths \div 10) \o <<".">> \o str(tenths % 10) \o <<" ">> \o unit

format_file_size(size_bytes) ==
    IF size_bytes < 1024 THEN str(size_bytes) \o <<" ", "B">>
    ELSE IF size_bytes < 1024 * 1024
      THEN decimal_text(one_decimal(size_bytes, 1024), <<"K", "B">>)
    ELSE IF size_bytes < 1024 * 1024 * 1024
      THEN decimal_text(one_decimal(size_bytes, 1024 * 1024), <<"M", "B">>)
    ELSE decimal_text(one_decimal(size_bytes, 1024 * 1024 * 1024), <<"G", "B">>)

\* what save_query_results gives back: the descriptor of lines 263-268, the
\* error report of lines 272-275, or an exception that leaves the function
NoResult ==
    [kind |-> "none", filename |-> <<>>, format |-> <<>>, size |-> <<>>, row_count |-> 0,
     failed |-> "none"]

Descriptor(name, fmt, size, rows) ==
    [kind |-> "descriptor", filename |-> name, format |-> fmt, size |-> size,
     row_count |-> rows, failed |-> "none"]

ErrorReport(rows, step) ==
    [kind |-> "error", filename |-> <<>>, format |-> <<>>, size |-> <<>>,
     row_count |-> rows, failed |-> step]

Raised(step) ==
    [kind |-> "raised", filename |-> <<>>, format |-> <<>>, size |-> <<>>,
     row_count |-> 0, failed |-> step]

\* the operating-system calls of save_query_results that can fail
IOSteps == {"makedirs", "open_data", "write_data", "open_metadata", "write_metadata",
            "getsize"}

\* an output directory without files
NoFiles == [path \in {} |-> [size |-> 0, written |-> FALSE]]

\* open(path, 'w') followed by a write: the file exists with the bytes written
WriteFile(fs, path, size) ==
    [x \in DOMAIN fs \cup {path} |->
        IF x = path THEN [size |-> size, written |-> TRUE] ELSE fs[x]]

\* the byte counts json.dump and csv.DictWriter produce are not modelled:
\* a file written in full has this size, a file whose write failed is empty
WrittenSizes == {512}

\* lines 181-275, with at most one failing operating-system call (fail)
save_query_results ==
    /\ phase = "start" /\ tool = "save_query_results"
    /\ \E fail \in IOSteps \cup {"none"} : \E data_size, metadata_size \in WrittenSizes :
        LET name == filename(custom_filename, file_format, query)
            filepath == path_join(TempData, name)
            fmt == lower(file_format)
            supported == fmt \in {JsonFormat, CsvFormat}
            sidecar == fmt = CsvFormat /\ data # <<>>
            writes == fmt = JsonFormat \/ sidecar
            reached == {"makedirs"}
                       \cup (IF writes THEN {"open_data", "write_data"} ELSE {})
                       \cup (IF sidecar THEN {"open_metadata", "write_metadata"} ELSE {})
                       \cup (IF supported THEN {"getsize"} ELSE {})
            after_data ==
                IF writes /\ fail # "open_data"
                  THEN WriteFile(files, filepath,
                                 IF fail = "write_data" THEN 0 ELSE data_size)
                  ELSE files
            after_metadata ==
                IF sidecar /\ fail \notin {"open_data", "write_data", "open_metadata"}
                  THEN WriteFile(after_data, metadata_filepath(filepath),
                                 IF fail = "write_metadata" THEN 0 ELSE metadata_size)
                  ELSE after_data
        IN /\ fail \in reached \cup {"none"}
           /\ IF fail = "makedirs"
                \* line 195 is outside the try block
                THEN files' = files /\ result' = Raised(fail)
                ELSE /\ files' = after_metadata
                     /\ result' =
                          IF ~supported THEN ErrorReport(Len(data), "none")
                          ELSE IF fail # "none" THEN ErrorReport(Len(data), fail)
                          \* os.path.getsize of a file that does not exist
                          ELSE IF filepath \notin DOMAIN after_metadata
                            THEN ErrorReport(Len(data), "none")
                          ELSE Descriptor(name, file_format,
                                   format_file_size(after_metadata[filepath].size),
                                   Len(data))
    /\ phase' = "returned"
    /\ UNCHANGED <<data, file_format, custom_filename, sse, memo, startup_env, env, tables,
                   tool, query, row_limit, table_name, config, open, opened, sent, outcome>>

----------------------------------------------------------------------------
(* read_query of src/mysql_explorer_sse/mysql_explorer_sse.py *)

\* lines 43-56 of the SSE file: user, password and database have no default
\* (os.getenv gives None, modelled as the empty value)
sse_get_db_config(e) ==
    LET host == getenv(e, "MYSQL_HOST", "localhost")
        port == int(getenv(e, "MYSQL_PORT", <<"3","3","0","6">>))
        user == getenv(e, "MYSQL_USER", "")
        password == getenv(e, "MYSQL_PASSWORD", "")
        database == getenv(e, "MYSQL_DATABASE", "")
    IN IF port = IntError THEN [error |-> "PortError"]
       ELSE IF ~(user # "" /\ password # "" /\ database # "")
         THEN [error |-> "ConfigError"]
       ELSE [error |-> "", host |-> host, port |-> port, user |-> user,
             password |-> password, database |-> database]

\* lines 96-100
sse_clean(q) ==
    LET stripped == strip(q)
    IN IF endswith(stripped, <<SC>>)
         THEN strip(SubSeq(stripped, 1, Len(stripped) - 1))
         ELSE stripped

\* lines 103-113: the scanner of the SSE file has no escape handling
RECURSIVE sse_scan_statements(_, _, _, _)
sse_scan_statements(sql, i, in_single_quote, in_double_quote) ==
    IF i > Len(sql) THEN FALSE
    ELSE LET char == sql[i] IN
         IF char = SQ /\ ~in_double_quote
           THEN sse_scan_statements(sql, i + 1, ~in_single_quote, in_double_quote)
         ELSE IF char = DQ /\ ~in_single_quote
           THEN sse_scan_statements(sql, i + 1, in_single_quote, ~in_double_quote)
         ELSE IF char = SC /\ ~in_single_quote /\ ~in_double_quote
           THEN TRUE
         ELSE sse_scan_statements(sql, i + 1, in_single_quote, in_double_quote)

sse_contains_multiple_statements(sql) == sse_scan_statements(sql, 1, FALSE, FALSE)

\* str.upper
UpperChar(c) ==
    IF c \in Range(LowerLetters)
      THEN UpperLetters[CHOOSE i \in 1..Len(LowerLetters) : LowerLetters[i] = c]
      ELSE c

upper(s) == [i \in 1..Len(s) |-> UpperChar(s[i])]

\* re.sub(q + '[^' + q + ']*' + q, "", s): the quoted runs are removed
RECURSIVE sse_re_sub_quoted(_, _)
sse_re_sub_quoted(s, q) ==
    IF s = <<>> THEN <<>>
    ELSE IF Head(s) # q THEN <<Head(s)>> \o sse_re_sub_quoted(Tail(s), q)
    ELSE LET rest == Tail(s)
             closes == {j \in 1..Len(rest) : rest[j] = q}
         IN IF closes = {} THEN s
            ELSE LET j == CHOOSE k \in closes : \A m \in closes : k <= m
                 IN sse_re_sub_quoted(SubSeq(rest, j + 1, Len(rest)), q)

\* lines 126-131
sse_dangerous_keywords ==
    << <<"D","R","O","P">>,
       <<"D","E","L","E","T","E">>,
       <<"U","P","D","A","T","E">>,
       <<"I","N","S","E","R","T">>,
       <<"A","L","T","E","R">>,
       <<"C","R","E","A","T","E">>,
       <<"T","R","U","N","C","A","T","E">>,
       <<"R","E","P","L","A","C","E">>,
       <<"G","R","A","N","T">>,
       <<"R","E","V","O","K","E">>,
       <<"S","E","T">>,
       <<"C","A","L","L">>,
       <<"E","X","E","C","U","T","E">>,
       <<"P","R","E","P","A","R","E">>,
       <<"D","E","A","L","L","O","C","A","T","E">>,
       <<"L","O","C","K">>,
       <<"U","N","L","O","C","K">>,
       <<"S","T","A","R","T"," ","T","R","A","N","S","A","C","T","I","O","N">>,
       <<"C","O","M","M","I","T">>,
       <<"R","O","L","L","B","A","C","K">>,
       <<"S","A","V","E","P","O","I","N","T">> >>

\* lines 119-137: `keyword in sql_upper`, a substring test
sse_contains_dangerous_keywords(sql) ==
    LET sql_upper == upper(sse_re_sub_quoted(sse_re_sub_quoted(sql, SQ), DQ))
        hits == {k \in 1..Len(sse_dangerous_keywords) :
                    contains(sql_upper, sse_dangerous_keywords[k])}
    IN IF hits = {} THEN [has |-> FALSE, word |-> NoKeyword]
       ELSE [has |-> TRUE,
             word |-> sse_dangerous_keywords[CHOOSE k \in hits : \A m \in hits : k <= m]]

\* line 141
sse_has_allowed_prefix(query_lower) ==
    \E k \in 1..Len(allowed_prefixes) : startswith(query_lower, allowed_prefixes[k])

\* lines 93-147: the keyword search runs only when the allowlist test fails
sse_validate(c, q) ==
    LET query_lower == strip(lower(q))
        found == sse_contains_dangerous_keywords(q)
    IN IF c.error # "" THEN [kind |-> c.error, word |-> NoKeyword]
       ELSE IF sse_contains_multiple_statements(q)
         THEN [kind |-> "MultipleStatements", word |-> NoKeyword]
       ELSE IF ~sse_has_allowed_prefix(query_lower)
         THEN IF found.has
                THEN [kind |-> "DangerousKeyword", word |-> found.word]
                ELSE [kind |-> "NotReadOnly", word |-> NoKeyword]
       ELSE [kind |-> "", word |-> NoKeyword]

\* lines 156-157
sse_execution_text(q, limit) ==
    IF startswith(strip(lower(q)), SelectWord) /\ ~contains(strip(lower(q)), LimitWord)
      THEN q \o <<" ","L","I","M","I","T"," ">> \o str(limit)
      ELSE q

\* the state of a read_query call of the SSE program
NoSSE ==
    [phase |-> "idle", query |-> <<>>, row_limit |-> 0, config |-> NoConfig,
     open |-> FALSE, sent |-> <<>>, outcome |-> Running]

SSE_frame ==
    UNCHANGED <<export_vars, memo, startup_env, env, tables, phase, tool, query, row_limit,
                table_name, config, open, opened, sent, outcome>>

\* lines 93-147
SSE_Validate ==
    /\ sse.phase = "start"
    /\ LET c == sse_get_db_config(env)
           q == sse_clean(sse.query)
           v == sse_validate(c, q)
       IN sse' = [sse EXCEPT !.config = c, !.query = q,
                             !.phase = IF v.kind # "" THEN "returned" ELSE "connect",
                             !.outcome = IF v.kind # "" THEN v ELSE sse.outcome]
    /\ SSE_frame

\* line 151 and lines 63-65: MySQLConnection.__enter__
SSE_Connect ==
    /\ sse.phase = "connect"
    /\ sse' = [sse EXCEPT !.open = TRUE, !.phase = "body"]
    /\ SSE_frame

\* lines 154-181 and 67-69: the statement is sent, the rows are returned and
\* the connection is closed
SSE_Execute ==
    /\ sse.phase = "body"
    /\ LET text == sse_execution_text(sse.query, sse.row_limit)
       IN sse' = [sse EXCEPT !.query = text,
                             !.sent = Append(sse.sent, Statement("QUERY", text)),
                             !.open = FALSE,
                             !.phase = "returned",
                             !.outcome = Outcome("ok")]
    /\ SSE_frame


----------------------------------------------------------------------------
(* Inputs *)

MaxBody == 5
MaxTail == 2

Fragments ==
    { <<SQ>>, <<DQ>>, <<BS>>, <<SC>>, <<SPC>>, <<"D","r","o","p">> }

SelectHead == <<"s","e","l","e","c","t">>

OtherHeads ==
    { <<>>,
      <<" ","S","e","l","e","c","t">>,
      <<"s","e","l","e","c","t","s">>,
      <<"s","e","l","e","c","t"," ","L","i","m","i","t">>,
      <<"s","e","l","e","c","t"," ","l","i","m","i","t","s">>,
      <<"S","H","O","W">>,
      <<"d","e","s","c">>,
      <<"d","e","s","c","r","i","b","e">>,
      <<"e","x","p","l","a","i","n">>,
      <<"w","i","t","h">>,
      <<"w","i","t">> }

RECURSIVE Bodies(_)
Bodies(n) ==
    IF n = 0 THEN {<<>>}
    ELSE LET shorter == Bodies(n - 1)
         IN shorter \cup {b \o f : b \in shorter, f \in Fragments}

Queries ==
    {SelectHead \o b : b \in Bodies(MaxBody)}
        \cup {h \o b : h \in OtherHeads, b \in Bodies(MaxTail)}

RowLimits == {7, 50}

\* the texts given to both programs
VariantQueries == {h \o b : h \in {SelectHead} \cup OtherHeads, b \in Bodies(MaxTail)}

\* queries of the tool specification: one per path through read_query
SmallQueries ==
    { <<"s","e","l","e","c","t">>,
      <<"s","e","l","e","c","t"," ","l","i","m","i","t",";"," ">>,
      <<"s","e","l","e","c","t",";","D","r","o","p">>,
      <<"s","e","l","e","c","t"," ","D","r","o","p">>,
      <<"D","r","o","p">>,
      <<"S","H","O","W">> }

FullEnv ==
    [n \in EnvNames |->
        CASE n = "MYSQL_HOST" -> "db1"
          [] n = "MYSQL_PORT" -> <<"3","3","0","7">>
          [] n = "MYSQL_USER" -> "alice"
          [] n = "MYSQL_PASSWORD" -> "pw"
          [] n = "MYSQL_DATABASE" -> "shop"]

\* the values an environment variable can be set to
EnvValues(n) ==
    CASE n = "MYSQL_HOST" -> {"db1"}
      [] n = "MYSQL_PORT" -> {<<"3","3","0","7">>, <<>>}
      [] n = "MYSQL_USER" -> {"alice", ""}
      [] n = "MYSQL_PASSWORD" -> {"pw"}
      [] n = "MYSQL_DATABASE" -> {"shop"}

Restrict(f, S) == [x \in S |-> f[x]]

\* environments a deployment starts with
StartupEnvs ==
    { FullEnv,
      Restrict(FullEnv, EnvNames \ {"MYSQL_USER"}),
      Restrict(FullEnv, EnvNames \ {"MYSQL_HOST", "MYSQL_PORT"}) }

TableNames == { <<"a","b">>, <<"a","_">>, <<"%">>, <<"z","z">> }

TableSets == { {}, {<<"a","b">>}, {<<"a","b">>, <<"a","_">>} }

Tools == {"read_query", "list_tables", "describe_table", "show_table_indexes",
          "show_create_table", "get_database_info"}

TableTools == {"describe_table", "show_table_indexes", "show_create_table"}

\* save_query_results: custom names over these characters, up to MaxName long
MaxName == 3
NameChars == {"a", " ", "-", ".", "/"}

RECURSIVE Names(_)
Names(n) ==
    IF n = 0 THEN { <<>> }
    ELSE Names(n - 1) \cup {w \o <<c>> : w \in Names(n - 1), c \in NameChars}

CustomFilenames == Names(MaxName)

FileFormats == { JsonFormat, CsvFormat, <<"C","S","V">>, <<"x","m","l">> }

\* rows are opaque: only their number matters to save_query_results
DataLists == { <<>>, <<"row1", "row2">> }

ExportQueries == { <<"s","e","l","e","c","t"," ","1">>,
                   <<"s","e","l","e","c","t","\n","'","/","'">> }

\* what the output directory holds before the call
PriorFiles ==
    LET stale == [size |-> 1536, written |-> FALSE]
        a_csv == TempData \o <<"/","a",".","c","s","v">>
        a_meta == metadata_filepath(a_csv)
    IN { NoFiles,
         [path \in {a_csv} |-> stale],
         [path \in {a_csv, a_meta} |-> stale] }

----------------------------------------------------------------------------
(* The tool specification: calls one after the other, from any tool *)

Idle ==
    /\ phase = "idle"
    /\ tool = "none"
    /\ query = <<>>
    /\ row_limit = 0
    /\ table_name = NoTable
    /\ config = NoConfig
    /\ opened = 0
    /\ sent = <<>>
    /\ outcome = Running

\* no export is under way
NoExport ==
    /\ files = NoFiles
    /\ data = <<>>
    /\ file_format = <<>>
    /\ custom_filename = <<>>
    /\ result = NoResult

Init ==
    /\ startup_env \in StartupEnvs
    /\ env = startup_env
    /\ tables \in TableSets
    /\ open = <<>>
    /\ Idle
    /\ NoExport
    /\ sse = NoSSE
    /\ memo = NoMemo

\* the caller invokes a tool
Call ==
    /\ phase = "idle"
    /\ phase' = "start"
    /\ \E t \in Tools :
        /\ tool' = t
        /\ IF t = "read_query"
             THEN query' \in SmallQueries /\ row_limit' \in RowLimits
             ELSE query' = query /\ row_limit' = row_limit
        /\ IF t \in TableTools
             THEN table_name' \in TableNames
             ELSE table_name' = table_name
    /\ UNCHANGED <<export_vars, sse, memo, startup_env, env, tables, config, open, opened, sent, outcome>>

\* the result has reached the caller; the locals of the call are gone
Return ==
    /\ phase = "returned"
    /\ phase' = "idle"
    /\ tool' = "none"
    /\ query' = <<>>
    /\ row_limit' = 0
    /\ table_name' = NoTable
    /\ config' = NoConfig
    /\ opened' = 0
    /\ sent' = <<>>
    /\ outcome' = Running
    /\ UNCHANGED <<export_vars, sse, memo, startup_env, env, tables, open>>

\* between two calls the process environment is changed: a variable is set ...
SetEnv ==
    /\ phase = "idle"
    /\ \E n \in EnvNames : \E v \in EnvValues(n) :
        /\ ~(n \in DOMAIN env /\ env[n] = v)
        /\ env' = [x \in DOMAIN env \cup {n} |-> IF x = n THEN v ELSE env[x]]
    /\ UNCHANGED <<export_vars, sse, memo, startup_env, tables, phase, tool, query, row_limit, table_name, config,
                   open, opened, sent, outcome>>

\* ... or removed
UnsetEnv ==
    /\ phase = "idle"
    /\ \E n \in DOMAIN env : env' = Restrict(env, DOMAIN env \ {n})
    /\ UNCHANGED <<export_vars, sse, memo, startup_env, tables, phase, tool, query, row_limit, table_name, config,
                   open, opened, sent, outcome>>

Next ==
    \/ Call
    \/ Return
    \/ SetEnv
    \/ UnsetEnv
    \/ RQ_Validate
    \/ Tool_Config
    \/ MySQLConnection_enter
    \/ MySQLConnection_enter_raises
    \/ MySQLConnection_exit
    \/ RQ_Execute
    \/ RQ_Execute_raises
    \/ list_tables_execute
    \/ list_tables_raises
    \/ describe_table_check
    \/ describe_table_check_raises
    \/ describe_table_describe
    \/ describe_table_describe_raises
    \/ show_table_indexes_check
    \/ show_table_indexes_check_raises
    \/ show_table_indexes_show
    \/ show_table_indexes_show_raises
    \/ show_create_table_check
    \/ show_create_table_check_raises
    \/ show_create_table_show
    \/ show_create_table_show_raises
    \/ get_database_info_execute
    \/ get_database_info_raises

Spec == Init /\ [][Next]_vars

----------------------------------------------------------------------------
(* The validation specification: one read_query call on every query text *)

InitV ==
    /\ startup_env = FullEnv
    /\ env = startup_env
    /\ tables = {}
    /\ phase = "start"
    /\ tool = "read_query"
    /\ query \in Queries
    /\ row_limit \in {50}
    /\ table_name = NoTable
    /\ config = NoConfig
    /\ open = <<>>
    /\ opened = 0
    /\ sent = <<>>
    /\ outcome = Running
    /\ NoExport
    /\ sse = NoSSE
    /\ memo = NoMemo

NextV ==
    \/ RQ_Validate
    \/ MySQLConnection_enter
    \/ RQ_Execute
    \/ MySQLConnection_exit

SpecV == InitV /\ [][NextV]_vars

----------------------------------------------------------------------------
(* The history specification: read_query calls one after the other, the      *)
(* environment changing in between, with the verdicts remembered             *)

InitH ==
    /\ startup_env = FullEnv
    /\ env = startup_env
    /\ tables = {}
    /\ open = <<>>
    /\ Idle
    /\ NoExport
    /\ sse = NoSSE
    /\ memo = NoMemo

\* the caller invokes read_query
Call_read_query ==
    /\ phase = "idle"
    /\ phase' = "start"
    /\ tool' = "read_query"
    /\ query' \in SmallQueries
    /\ row_limit' \in RowLimits
    /\ UNCHANGED <<export_vars, sse, memo, startup_env, env, tables, table_name, config,
                   open, opened, sent, outcome>>

NextH ==
    \/ Call_read_query
    \/ RQ_Validate_remember
    \/ MySQLConnection_enter
    \/ MySQLConnection_enter_raises
    \/ RQ_Execute
    \/ RQ_Execute_raises
    \/ MySQLConnection_exit
    \/ Return
    \/ SetEnv
    \/ UnsetEnv

SpecH == InitH /\ [][NextH]_vars

----------------------------------------------------------------------------
(* The variant specification: the same text and row_limit are passed to     *)
(* read_query of the stdio program and to read_query of the SSE program      *)

InitE ==
    /\ startup_env = FullEnv
    /\ env = startup_env
    /\ tables = {}
    /\ phase = "start"
    /\ tool = "read_query"
    /\ query \in VariantQueries
    /\ row_limit \in {50}
    /\ table_name = NoTable
    /\ config = NoConfig
    /\ open = <<>>
    /\ opened = 0
    /\ sent = <<>>
    /\ outcome = Running
    /\ NoExport
    /\ sse = [NoSSE EXCEPT !.phase = "start", !.query = query, !.row_limit = row_limit]
    /\ memo = NoMemo

NextE ==
    \/ RQ_Validate
    \/ MySQLConnection_enter
    \/ RQ_Execute
    \/ MySQLConnection_exit
    \/ SSE_Validate
    \/ SSE_Connect
    \/ SSE_Execute

SpecE == InitE /\ [][NextE]_vars

----------------------------------------------------------------------------
(* The export specification: one save_query_results call on every input *)

InitS ==
    /\ startup_env = FullEnv
    /\ env = startup_env
    /\ tables = {}
    /\ phase = "start"
    /\ tool = "save_query_results"
    /\ custom_filename \in CustomFilenames
    /\ query \in (IF custom_filename = <<>> THEN ExportQueries ELSE {<<>>})
    /\ file_format \in FileFormats
    /\ data \in DataLists
    /\ files \in PriorFiles
    /\ result = NoResult
    /\ row_limit = 0
    /\ table_name = NoTable
    /\ config = NoConfig
    /\ open = <<>>
    /\ opened = 0
    /\ sent = <<>>
    /\ outcome = Running
    /\ sse = NoSSE
    /\ memo = NoMemo

NextS == save_query_results

SpecS == InitS /\ [][NextS]_vars

----------------------------------------------------------------------------
(* Vocabulary of the properties *)

\* read_query has just left its validation: accepted (about to connect) or
\* rejected; `query` is the cleaned text until the statement is sent
JustValidated ==
    /\ tool = "read_query"
    /\ phase \in {"connect", "returned"}
    /\ sent = <<>>
    /\ config.error = ""

RejectedAs(kind) == phase = "returned" /\ outcome.kind = kind

\* the number of backslashes that stand immediately before position i
RECURSIVE BackslashRun(_, _)
BackslashRun(t, i) ==
    IF i > 1 /\ t[i - 1] = BS THEN 1 + BackslashRun(t, i - 1) ELSE 0

\* the character at i is preceded by an escaping backslash: one that is not
\* itself escaped, so an odd run of backslashes
EscapedAt(t, i) == BackslashRun(t, i) % 2 = 1

\* the quoted region position i lies in, by matching the unescaped quotes before it
RECURSIVE QuotedRegion(_, _)
QuotedRegion(t, i) ==
    IF i = 1 THEN "none"
    ELSE LET r == QuotedRegion(t, i - 1)
             c == t[i - 1]
         IN IF EscapedAt(t, i - 1) \/ c \notin {SQ, DQ} THEN r
            ELSE IF r = "none" THEN c
            ELSE IF r = c THEN "none"
            ELSE r

\* a semicolon that is not escaped and lies outside every '...' and "..." region
TopLevelSemicolon(t) ==
    \E i \in 1..Len(t) :
        t[i] = SC /\ ~EscapedAt(t, i) /\ QuotedRegion(t, i) = "none"

\* the region every character lies in, reading left to right: "none" outside the
\* literals, else the quote character of the literal (its two quotes included).
\* A backslash makes the next character ordinary: everywhere (the rule of the
\* multi-statement scanner), or inside '...' and "..." only (the rule of MySQL)
RECURSIVE LexFrom(_, _, _, _, _, _)
LexFrom(t, i, region, escaped, quotes, escape_everywhere) ==
    IF i > Len(t) THEN <<>>
    ELSE LET c == t[i] IN
         IF escaped
           THEN <<region>> \o LexFrom(t, i + 1, region, FALSE, quotes, escape_everywhere)
         ELSE IF c = BS /\ (escape_everywhere \/ region \in {SQ, DQ})
           THEN <<region>> \o LexFrom(t, i + 1, region, TRUE, quotes, escape_everywhere)
         ELSE IF region = "none" /\ c \in quotes
           THEN <<c>> \o LexFrom(t, i + 1, c, FALSE, quotes, escape_everywhere)
         ELSE IF region = c
           THEN <<c>> \o LexFrom(t, i + 1, "none", FALSE, quotes, escape_everywhere)
         ELSE <<region>> \o LexFrom(t, i + 1, region, FALSE, quotes, escape_everywhere)

Regions(t, quotes, escape_everywhere) ==
    LexFrom(t, 1, "none", FALSE, quotes, escape_everywhere)

\* every literal of t is closed
WellQuoted(t, quotes, escape_everywhere) ==
    Regions(t \o <<SPC>>, quotes, escape_everywhere)[Len(t) + 1] = "none"

\* the positions where a denylisted keyword starts as a whole word
KeywordStarts(t) ==
    LET lt == lower(t) IN
    {p \in 1..Len(lt) :
        \E k \in 1..Len(dangerous_keywords) :
            LET kw == dangerous_keywords[k] IN
            /\ p + Len(kw) - 1 <= Len(lt)
            /\ SubSeq(lt, p, p + Len(kw) - 1) = kw
            /\ word_boundary(lt, p - 1)
            /\ word_boundary(lt, p + Len(kw) - 1)}

StringQuotes == {SQ, DQ}
AllQuotes == {SQ, DQ, BT}

\* outside (inside) a literal under both readings of the backslash
OutsideLiterals(t, p, quotes) ==
    /\ Regions(t, quotes, TRUE)[p] = "none"
    /\ Regions(t, quotes, FALSE)[p] = "none"

InsideLiteral(t, p, quotes) ==
    /\ Regions(t, quotes, TRUE)[p] # "none"
    /\ Regions(t, quotes, FALSE)[p] # "none"

ReadOnlyVerbs ==
    { <<"s","e","l","e","c","t">>, <<"s","h","o","w">>,
      <<"d","e","s","c","r","i","b","e">>, <<"d","e","s","c">>,
      <<"e","x","p","l","a","i","n">>, <<"w","i","t","h">> }

\* the characters up to the first space
LeadingToken(t) ==
    LET spaces == {i \in 1..Len(t) : t[i] = SPC}
    IN IF spaces = {} THEN t
       ELSE SubSeq(t, 1, (CHOOSE i \in spaces : \A j \in spaces : i <= j) - 1)

BeginsWithVerb(t) ==
    \E v \in ReadOnlyVerbs : Len(v) <= Len(t) /\ \A i \in 1..Len(v) : t[i] = v[i]

----------------------------------------------------------------------------
(* C1 *)

\* C1: after the trimming, read_query is rejected with "Multiple SQL statements
\* are not allowed" exactly when the text holds a semicolon that no backslash
\* escapes and that lies outside every single- and double-quoted region.
C1_MultiStatementGate ==
    JustValidated =>
        (RejectedAs("MultipleStatements") <=> TopLevelSemicolon(query))

\* C1 witness: a text with a backslash and an apostrophe is rejected for its semicolon
C1_Witness ==
    /\ JustValidated
    /\ RejectedAs("MultipleStatements")
    /\ \E i, j \in 1..Len(query) : query[i] = BS /\ query[j] = SQ

----------------------------------------------------------------------------
(* C2 *)

\* C2 as claimed: a single-statement query whose leading token (the characters
\* up to the first space of the normalized text) is not exactly one of the six
\* verbs is rejected as not read-only.
C2_LeadingTokenGate ==
    (/\ JustValidated
     /\ ~RejectedAs("MultipleStatements")
     /\ LeadingToken(normalize(query)) \notin ReadOnlyVerbs)
        => RejectedAs("NotReadOnly")

\* C2 amended: a single-statement query whose normalized text does not begin
\* with the characters of one of the six verbs is rejected as not read-only.
C2_PrefixGate ==
    (/\ JustValidated
     /\ ~RejectedAs("MultipleStatements")
     /\ ~BeginsWithVerb(normalize(query)))
        => RejectedAs("NotReadOnly")

\* C2 witness: a non-empty text that begins with no verb is rejected as not read-only
C2_Witness ==
    /\ JustValidated
    /\ RejectedAs("NotReadOnly")
    /\ query # <<>>
    /\ ~BeginsWithVerb(normalize(query))

----------------------------------------------------------------------------
(* C3 *)

\* C3: a query that passes the multi-statement and allowlist checks and holds a
\* denylisted keyword as a whole word outside every '...', "..." and backtick
\* literal is rejected with the dangerous-keyword error.
C3_KeywordOutsideLiteralsRejected ==
    (/\ JustValidated
     /\ outcome.kind \notin {"MultipleStatements", "NotReadOnly"}
     /\ \E p \in KeywordStarts(query) : OutsideLiterals(query, p, AllQuotes))
        => RejectedAs("DangerousKeyword")

----------------------------------------------------------------------------
(* C4 *)

\* C4: a query that starts with an allowed verb and whose denylisted keywords
\* all lie inside closed string literals, a backslash-escaped quote not ending
\* the literal, is not rejected with the dangerous-keyword error.
C4_KeywordInsideLiteralsAccepted ==
    (/\ JustValidated
     /\ outcome.kind \notin {"MultipleStatements", "NotReadOnly"}
     /\ WellQuoted(query, StringQuotes, TRUE)
     /\ WellQuoted(query, StringQuotes, FALSE)
     /\ KeywordStarts(query) # {}
     /\ \A p \in KeywordStarts(query) : InsideLiteral(query, p, StringQuotes))
        => ~RejectedAs("DangerousKeyword")

----------------------------------------------------------------------------
(* C5 *)

\* a whole word "limit" in the normalized text
HasLimitToken(t) == re_search_word(LimitWord, normalize(t))

\* C5: the text sent is the accepted text with " LIMIT <row_limit>" appended if
\* and only if the normalized text starts with select and holds no limit token,
\* and the accepted text unchanged otherwise.
C5_LimitInjection ==
    [][(tool = "read_query" /\ phase = "body" /\ sent' # sent)
        => sent'[Len(sent')].text =
             IF startswith(normalize(query), SelectWord) /\ ~HasLimitToken(query)
               THEN query \o <<" ","L","I","M","I","T"," ">> \o str(row_limit)
               ELSE query]_vars

----------------------------------------------------------------------------
(* C6 *)

GatePassed(t) ==
    /\ ~contains_multiple_statements(t)
    /\ has_allowed_prefix(normalize(t))
    /\ ~contains_dangerous_keywords(normalize(t)).has

ValidationErrors == {"MultipleStatements", "NotReadOnly", "DangerousKeyword"}

NothingTouched == open = <<>> /\ opened = 0 /\ sent = <<>>

\* C6: read_query opens a connection and sends a statement only after the
\* multi-statement, allowlist and denylist checks have all passed; a call that
\* validation rejects has opened no connection and sent nothing.
C6_ConnectOnlyAfterValidation ==
    /\ [](tool = "read_query" =>
            /\ phase \in {"connect", "body"} => config.error = "" /\ GatePassed(query)
            /\ phase = "start" => NothingTouched
            /\ (phase = "returned" /\ outcome.kind \in ValidationErrors) => NothingTouched)
    /\ [][tool = "read_query" =>
            /\ opened' > opened => phase = "connect"
            /\ Len(sent') > Len(sent) => phase = "body" /\ Len(open) = 1]_vars

\* C6 witness: an accepted query has been sent on the one open connection
C6_Witness ==
    /\ tool = "read_query"
    /\ phase = "exit"
    /\ Len(sent) = 1
    /\ Len(open) = 1

----------------------------------------------------------------------------
(* C7 *)

\* C7: every call opens at most one connection, and when the call has returned
\* or raised, the connection it opened is closed: between calls none is open.
C7_ConnectionsClosed ==
    /\ opened <= 1
    /\ Len(open) <= opened
    /\ phase \in {"idle", "start", "connect", "returned"} => open = <<>>

\* C7 witness: a call that opened a connection and failed its table-existence
\* check has returned with the connection closed
C7_Witness ==
    /\ phase = "returned"
    /\ opened = 1
    /\ outcome.kind = "NotExist"
    /\ open = <<>>

----------------------------------------------------------------------------
(* C8 *)

SchemaStatements == {"DESCRIBE", "SHOW INDEX FROM"}

\* C8: for a table_name that is not the name of an existing table,
\* describe_table and show_table_indexes never send the DESCRIBE / SHOW INDEX
\* statement, and once the existence check has been answered they fail with
\* the "does not exist" error.
C8_MissingTableNeverQueried ==
    (tool \in {"describe_table", "show_table_indexes"} /\ table_name \notin tables) =>
        /\ \A i \in DOMAIN sent : sent[i].kind \notin SchemaStatements
        /\ (/\ phase \in {"exit", "returned"}
            /\ sent # <<>>
            /\ ~(Len(sent) = 1 /\ outcome.kind = "MySQLError"))
              => outcome.kind = "NotExist"

----------------------------------------------------------------------------
(* C9 *)

RequiredNames == {"MYSQL_USER", "MYSQL_PASSWORD", "MYSQL_DATABASE"}

\* C9: when the user, the password or the database name is absent from the
\* environment, a call ends with a configuration error before any validation,
\* connection or execution.
C9_MissingConfigIsFatal ==
    (phase # "idle" /\ ~(RequiredNames \subseteq DOMAIN env)) =>
        /\ NothingTouched
        /\ phase \in {"start", "returned"}
        /\ phase = "returned" => outcome.kind \in {"ConfigError", "PortError"}

----------------------------------------------------------------------------
(* C10 *)

ValueOr(e, name, default) == IF name \in DOMAIN e THEN e[name] ELSE default

\* the connection parameters the environment e stands for
ResolvedFrom(e) ==
    [error |-> "",
     host |-> ValueOr(e, "MYSQL_HOST", "127.0.0.1"),
     port |-> int(ValueOr(e, "MYSQL_PORT", <<"3","3","0","6">>)),
     user |-> ValueOr(e, "MYSQL_USER", "root"),
     password |-> ValueOr(e, "MYSQL_PASSWORD", "123456"),
     database |-> ValueOr(e, "MYSQL_DATABASE", "aircraft")]

----------------------------------------------------------------------------
(* C11 *)

Exported == tool = "save_query_results" /\ phase = "returned"

WrittenPaths == {path \in DOMAIN files : files[path].written}

\* C11: save_query_results with an empty data list and format csv, when no
\* operating-system call fails, writes no data file and no sidecar, does not
\* raise, and returns a result with row_count 0 that is either a report that
\* nothing was written or a descriptor; a descriptor never names a file of
\* the output directory that this call did not write.
C11_EmptyCsvExport ==
    (Exported /\ data = <<>> /\ file_format = CsvFormat /\ result.failed = "none")
        => /\ WrittenPaths = {}
           /\ result.kind \in {"descriptor", "error"}
           /\ result.row_count = 0
           /\ result.kind = "descriptor"
                 => path_join(TempData, result.filename) \notin DOMAIN files

----------------------------------------------------------------------------
(* C12 *)

\* C12: every failing operating-system call of save_query_results and every
\* unsupported format is caught: the call does not raise, it returns
\* {error, row_count} with row_count the length of the data, and the data is
\* left unchanged.
C12_ExportFailuresCaught ==
    [][(tool = "save_query_results" /\ phase = "start" /\ phase' = "returned")
          => /\ data' = data
             /\ result'.kind # "raised"
             /\ (result'.failed # "none" \/ lower(file_format) \notin {JsonFormat, CsvFormat})
                    => (result'.kind = "error" /\ result'.row_count = Len(data))]_vars

----------------------------------------------------------------------------
(* C13 *)

Dots(s) == Len(SelectSeq(s, LAMBDA c : c = "."))

\* the name used, without the appended '.' and format
Stem(name, fmt) == SubSeq(name, 1, Len(name) - Len(fmt) - 1)

\* C13: for a non-empty custom filename, the filename used is a stem of
\* alphanumerics, '_', '-' and '.' followed by '.' and the format; the last
\* extension of the custom name is gone from the stem; and every file the
\* call writes lies directly inside temp_data.
C13_CustomFilenameSafe ==
    (tool = "save_query_results" /\ custom_filename # <<>>)
        => LET name == filename(custom_filename, file_format, query)
               stem == Stem(name, file_format)
           IN /\ endswith(name, <<".">> \o file_format)
              /\ \A i \in 1..Len(stem) : isalnum(stem[i]) \/ stem[i] \in {"_", "-", "."}
              /\ Dots(stem) = (IF Dots(custom_filename) = 0 THEN 0
                               ELSE Dots(custom_filename) - 1)
              /\ \A path \in WrittenPaths :
                    /\ startswith(path, TempData \o <<"/">>)
                    /\ "/" \notin Range(SubSeq(path, Len(TempData) + 2, Len(path)))

\* a custom name with a separator, a space and an extension, and a file written
C13_Witness ==
    /\ Exported
    /\ {"/", " ", "."} \subseteq Range(custom_filename)
    /\ result.kind = "descriptor"
    /\ WrittenPaths # {}

----------------------------------------------------------------------------
(* C14 *)

----------------------------------------------------------------------------
(* C15 *)

Rejected(o) == o.kind \in ValidationErrors

\* C15: given the same query text and row_limit, read_query of the SSE
\* program rejects the text if and only if read_query of the stdio program
\* rejects it, and when both send a statement they send the same text.
C15_VariantsAgree ==
    (phase # "start" /\ sse.phase # "start")
        => /\ Rejected(outcome) <=> Rejected(sse.outcome)
           /\ (sent # <<>> /\ sse.sent # <<>>) => sent = sse.sent

----------------------------------------------------------------------------
(* C16 *)

\* the text ends inside a '...' or "..." region that was never closed
HasDanglingQuote(t) == QuotedRegion(t, Len(t) + 1) # "none"

\* the position of the quote that opens that region
DanglingQuote(t) ==
    LET opens == {i \in 1..Len(t) :
                     QuotedRegion(t, i) = "none" /\ QuotedRegion(t, i + 1) # "none"}
    IN CHOOSE i \in opens : \A j \in opens : j <= i

\* C16: when the cleaned text has a dangling opening single or double quote,
\* everything after it counts as quoted for both passes: if every semicolon
\* lies after the dangling quote the call is not rejected for multiple
\* statements, and if every denylisted keyword lies after the dangling quote
\* the call is not rejected for a dangerous keyword.
C16_DanglingQuoteSuppresses ==
    (JustValidated /\ HasDanglingQuote(query))
        => LET d == DanglingQuote(query) IN
           /\ (\A i \in 1..Len(query) : query[i] = SC => i > d)
                  => ~RejectedAs("MultipleStatements")
           /\ (\A p \in KeywordStarts(query) : p > d)
                  => ~RejectedAs("DangerousKeyword")

====
